---- MODULE Spec2Model ----
(***************************************************************************)
(* Model of toolsrc/src/vcpkg/base/system.cpp: the Ctrl-C state machine    *)
(* (CtrlCStateMachine, _WIN32 build), the blocking execute calls that use  *)
(* it (cmd_execute, cmd_execute_and_stream_data) and the output streaming  *)
(* functions (cmd_execute_and_stream_data / _stream_lines /                *)
(* _capture_output) on both the _WIN32 and the non-Windows path, and the   *)
(* environment functions (get_environment, get_clean_environment,          *)
(* cmd_execute_modify_env), and the pipes of a redirected child with the   *)
(* processes that hold their ends.                                         *)
(***************************************************************************)
EXTENDS Integers, Sequences, FiniteSets, TLC

(***************************************************************************)
(* Bounds of the model.                                                    *)
(***************************************************************************)
\* number of threads that call the blocking execute functions
NThreads == 2
\* blocking execute calls started in one run of the program, over all threads
MaxCalls == 2
\* Ctrl-C events delivered to ctrl_handler (each runs on its own context)
MaxInterrupts == 2
\* events kept in the history variable
MaxHist == 5

\* longest combined output of a child, in bytes
MaxOut == 4
\* size of the read buffer `char buf[1024]` (lines 415 and 581), scaled down
BufSize == 3

\* longest content after the head of a captured `set` output, in bytes
MaxTail == 5

\* capacity of a pipe made by CreatePipe with nSize 0 (lines 445 and 449), scaled down
PipeCap == 2

Threads == 1..NThreads
Handlers == 1..MaxInterrupts

\* <climits>: int is 32 bits wide on every build of this file
INT_MIN == -2147483647 - 1
INT_MAX == -(INT_MIN + 1)

\* the bytes a child writes: NUL, the line terminator '\n', and an ordinary byte
NUL == 0
LF == 10
Letter == 97
Bytes == {NUL, LF, Letter}

\* the bytes of a captured `set` output: '\r' (line 494), '=' (line 491), letters,
\* and the sentinel magic_string (line 476), scaled down to its first character
CR == 13
EQ == 61
LetterB == 98
MagicByte == 99
magic_string == <<MagicByte>>
EnvBytes == {Letter, EQ, CR, LF, MagicByte}

VARIABLES
    m_number_of_external_processes, \* g_ctrl_c_state's std::atomic<int>
    pc,          \* per thread: where it is inside cmd_execute / cmd_execute_and_stream_data:
                 \* "idle", "to_spawn", "wait_to_spawn", "create", "child", "fatal",
                 \* "from_spawn", "wait_from_spawn", "returning", "exit_call", "in_exit"
    cur,         \* per thread: local `cur` of transition_to_spawn_process
    calls,       \* blocking execute calls started so far
    neg_at_call, \* per thread: the counter was negative when the call invoked pre-spawn
    hpc,         \* per Ctrl-C event: where ctrl_handler / transition_handle_ctrl_c is
    old_value,   \* per Ctrl-C event: local `old_value` of transition_handle_ctrl_c
    exit_calls,  \* invocations of Checks::final_cleanup_and_exit(1) by the state machine
    process,     \* "running", "exit_1" (final_cleanup_and_exit(1)), "exit_fatal" (Checks failure)
    hist,        \* the first MaxHist linearised transitions, in order
    platform,    \* "win32" (#if defined(_WIN32)) or "posix" (#else)
    api,         \* the function called: "execute", "no_wait", "stream_lines", "capture_output"
    child_out,   \* the bytes the child writes to its combined stdout/stderr
    rd,          \* how many of them the parent has read from the pipe
    spc,         \* where the call is: "off", "start", "create", "opened", "read", "wait",
                 \* "post", "detached", "data_returned", "done", "exit_fail"; inside
                 \* windows_create_process_redirect: "out_created", "out_set",
                 \* "in_created", "in_set", "created"
    chunks,      \* the StringViews passed to data_cb, in call order
    buf,         \* `std::string buf` of cmd_execute_and_stream_lines
    lines,       \* the strings passed to per_line_cb, in call order
    output,      \* `std::string output` of cmd_execute_and_capture_output
    rc_kind,     \* what the call returns: "none" yet, "exit_code", "one", "minus_one"
    call,        \* the rest of the call's state, a record (without fields while no
                 \* call is followed) of
                 \*   exit_status: the exit status the child ends with
                 \*   rc: the int the call returns (meaningful once rc_kind # "none")
                 \*   launch: creating the child and its pipes: "none" yet, "ok", "failed"
                 \*   read_error: the read loop was ended by an I/O error
                 \*   handles: per handle or stream of the call: "none", "open",
                 \*            "closed", "closed_twice"
                 \*   steps: the steps the call has performed, in order
    e_state      \* the state of the environment function followed, a record
                 \* (without fields while none is followed) of
                 \*   efn: the function: "off", "modify_env", "get_environment",
                 \*        "get_clean_environment"
                 \*   epc: where it is: "off", "start", "search", "parse", "returned",
                 \*        "run", "exit_fail" (the process was ended)
                 \*   captured: rc_output.output of cmd_execute_modify_env
                 \*   exit_code: rc_output.exit_code of cmd_execute_modify_env
                 \*   m_it: `it` of cmd_execute_modify_env, as an index into captured
                 \*   out_env: `std::wstring out_env` of cmd_execute_modify_env
                 \*   penv: the environment of the calling process
                 \*   keep_vars: the names listed in VCPKG_KEEP_ENV_VARS
                 \*   extra_env, prepend_to_path: the parameters of get_environment
                 \*   block: the entries of the block get_environment returns
                 \*   clean_state: the static clean_env: "uninit", "constructing", "done"
                 \*   clean_env: the entries of the static clean_env
                 \*   constructions: how often the initialiser of clean_env has run
                 \*   clean_calls: calls of get_clean_environment started so far
                 \*   gpc: per thread: where it is inside get_clean_environment
                 \*   ret: per thread: what its last call of get_clean_environment
                 \*        returned
                 \*   built_from: the environment of the process when clean_env was
                 \*        constructed

ctrlVars == <<m_number_of_external_processes, pc, cur, calls, neg_at_call,
              hpc, old_value, exit_calls, process, hist>>

streamVars == <<platform, api, child_out, rd, spc, chunks, buf, lines, output, rc_kind,
                call>>

envVars == <<e_state>>

vars == <<ctrlVars, streamVars, envVars>>

counter == m_number_of_external_processes

(***************************************************************************)
(* CtrlCStateMachine: the conditions and the arithmetic of the three       *)
(* transitions.                                                            *)
(***************************************************************************)
\* std::atomic<int> arithmetic wraps (two's complement)
WrapInt(c, d) ==
    IF d < 0 /\ c < INT_MIN - d THEN INT_MAX - ((INT_MIN - d) - c - 1)
    ELSE IF d > 0 /\ c > INT_MAX - d THEN INT_MIN + (c - (INT_MAX - d) - 1)
    ELSE c + d

\* line 38: the value the compare_exchange of pre-spawn installs
ToSpawnTarget(c) == WrapInt(c, 1)

\* mutant: the check for a Ctrl-C in flight is missing from the retry loop
ToSpawnMustWait_Never(c) == FALSE

\* line 40: pre-spawn sleeps forever
ToSpawnMustWait(c) == c < 0

\* mutant: fetch_add with the wrong sign
FromSpawnTarget_WrongSign(c) == WrapInt(c, 1)

\* line 55: fetch_add(-1)
FromSpawnTarget(c) == WrapInt(c, -1)

\* mutant: every post-completion after a Ctrl-C shuts down
FromSpawnIsLast_AnyNegative(previous) == previous < 0

\* mutant: the comparison is made with the value after the decrement
FromSpawnIsLast_OffByOne(previous) == previous = INT_MIN

\* line 56: this was the last external process after a Ctrl-C
FromSpawnIsLast(previous) == previous = INT_MIN + 1

\* mutant: a post-completion that is not the last one returns as if no Ctrl-C was hit
FromSpawnMustWait_Never(previous) == FALSE

\* line 63: Ctrl-C was hit, other processes are outstanding
FromSpawnMustWait(previous) == previous < 0

\* mutant: the handler installs the sentinel and drops the count of children
HandleCtrlCTarget_DropsCount(old) == INT_MIN

\* line 78: the value the compare_exchange of the handler installs
HandleCtrlCTarget(old) == WrapInt(old, INT_MIN)

\* mutant: a repeated Ctrl-C is not recognised
HandleCtrlCIsRepeat_Never(old) == FALSE

\* line 80: repeat call to Ctrl-C
HandleCtrlCIsRepeat(old) == old < 0

\* mutant: the handler shuts down whether or not children are outstanding
HandleCtrlCExitsNow_Always(old) == old >= 0

\* mutant: the handler tests the installed value instead of the old one
HandleCtrlCExitsNow_Installed(old) == old = INT_MIN

\* line 87: not currently blocked on a child process
HandleCtrlCExitsNow(old) == old = 0

(***************************************************************************)
(* History of the linearised transitions (auxiliary).                      *)
(***************************************************************************)
Event(op, who, res) == [op |-> op, who |-> who, res |-> res]

Record(e) == IF Len(hist) < MaxHist THEN Append(hist, e) ELSE hist

\* threads between a successful pre-spawn and their post-completion ("fatal": the
\* launch or the wait failed, the post-completion is never reached)
Outstanding == {t \in Threads : pc[t] \in {"create", "child", "from_spawn", "fatal"}}

\* threads in one of the two sleep-forever loops
Waiting == {t \in Threads : pc[t] \in {"wait_to_spawn", "wait_from_spawn"}}

\* threads and handler contexts at or inside the call of final_cleanup_and_exit(1)
ExitingThreads == {t \in Threads : pc[t] \in {"exit_call", "in_exit"}}
ExitingHandlers == {h \in Handlers : hpc[h] \in {"exit_call", "in_exit"}}

\* a Ctrl-C has been recorded in the counter
InterruptRecorded == counter < 0

InHist(e) == \E i \in 1..Len(hist) : hist[i] = e

\* no call is followed step by step
StreamIdle ==
    /\ api = "capture_output"
    /\ child_out = <<>>
    /\ rd = 0
    /\ spc = "off"
    /\ chunks = <<>>
    /\ buf = <<>>
    /\ lines = <<>>
    /\ output = <<>>
    /\ rc_kind = "none"
    /\ call = <<>>

StreamOff == platform = "win32" /\ StreamIdle

\* the fields of `e_state`
efn == e_state.efn
epc == e_state.epc
captured == e_state.captured
exit_code == e_state.exit_code
m_it == e_state.m_it
out_env == e_state.out_env
penv == e_state.penv
keep_vars == e_state.keep_vars
extra_env == e_state.extra_env
prepend_to_path == e_state.prepend_to_path
block == e_state.block
clean_state == e_state.clean_state
clean_env == e_state.clean_env
constructions == e_state.constructions
clean_calls == e_state.clean_calls
gpc == e_state.gpc
ret == e_state.ret
built_from == e_state.built_from

\* an environment with SystemRoot and TEMP set
DefaultEnv == [SystemRoot |-> "r", TEMP |-> "t", KEEPME |-> "", SECRET |-> "s", PATH |-> "p"]

\* what a call of get_clean_environment hands back: the object (numbered by its
\* construction) and the contents seen through the reference
Returned(obj, contents) == [obj |-> obj, contents |-> contents]

\* the fields of `e_state` before any of the three functions has done anything
EnvStart ==
    [efn |-> "off", epc |-> "off",
     captured |-> <<>>, exit_code |-> 0, m_it |-> 0, out_env |-> <<>>,
     penv |-> DefaultEnv, keep_vars |-> <<>>, extra_env |-> <<>>,
     prepend_to_path |-> "", block |-> <<>>,
     clean_state |-> "uninit", clean_env |-> <<>>, constructions |-> 0,
     clean_calls |-> 0, gpc |-> [t \in Threads |-> "idle"],
     ret |-> [t \in Threads |-> Returned(0, <<>>)], built_from |-> DefaultEnv]

\* no environment function is followed: the record has no fields
EnvOff == e_state = <<>>

CtrlInit ==
    /\ m_number_of_external_processes = 0
    /\ pc = [t \in Threads |-> "idle"]
    /\ cur = [t \in Threads |-> 0]
    /\ calls = 0
    /\ neg_at_call = [t \in Threads |-> FALSE]
    /\ hpc = [h \in Handlers |-> "none"]
    /\ old_value = [h \in Handlers |-> 0]
    /\ exit_calls = 0
    /\ process = "running"
    /\ hist = <<>>

Init == CtrlInit /\ StreamOff /\ EnvOff

(***************************************************************************)
(* cmd_execute / cmd_execute_and_stream_data, _WIN32 path.                 *)
(***************************************************************************)
\* a caller enters cmd_execute (line 509) or cmd_execute_and_stream_data (line 556): both
\* make the same calls on g_ctrl_c_state around the child; `int cur = 0`
Call(t) ==
    /\ process = "running"
    /\ pc[t] = "idle"
    /\ calls < MaxCalls
    /\ pc' = [pc EXCEPT ![t] = "to_spawn"]
    /\ cur' = [cur EXCEPT ![t] = 0]
    /\ calls' = calls + 1
    /\ neg_at_call' = [neg_at_call EXCEPT ![t] = (counter < 0)]
    /\ UNCHANGED <<streamVars, envVars>>
    /\ UNCHANGED <<m_number_of_external_processes, hpc, old_value, exit_calls, process, hist>>

\* one iteration of the compare_exchange loop of transition_to_spawn_process
ToSpawnProcess(t) ==
    /\ process = "running"
    /\ pc[t] = "to_spawn"
    /\ IF counter = cur[t]
       THEN /\ m_number_of_external_processes' = ToSpawnTarget(cur[t])
            /\ pc' = [pc EXCEPT ![t] = "create"]
            /\ hist' = Record(Event("to", t, "ok"))
            /\ UNCHANGED cur
       ELSE /\ cur' = [cur EXCEPT ![t] = counter]
            /\ IF ToSpawnMustWait(counter)
               THEN /\ pc' = [pc EXCEPT ![t] = "wait_to_spawn"]
                    /\ hist' = Record(Event("to", t, "wait"))
               ELSE UNCHANGED <<pc, hist>>
            /\ UNCHANGED m_number_of_external_processes
    /\ UNCHANGED <<streamVars, envVars>>
    /\ UNCHANGED <<calls, neg_at_call, hpc, old_value, exit_calls, process>>

\* windows_create_process / windows_create_process_redirect: the child is created,
\* or a Checks failure (CreatePipe, SetHandleInformation, CreateProcessW) ends the run
CreateProcess(t) ==
    /\ process = "running"
    /\ pc[t] = "create"
    /\ \E ok \in BOOLEAN :
          pc' = [pc EXCEPT ![t] = IF ok THEN "child" ELSE "fatal"]
    /\ UNCHANGED <<streamVars, envVars>>
    /\ UNCHANGED <<m_number_of_external_processes, cur, calls, neg_at_call,
                   hpc, old_value, exit_calls, process, hist>>

\* wait_and_close_handles / wait_and_stream_output return once the child has exited,
\* or WaitForSingleObject fails and Checks::check_exit ends the run
WaitChild(t) ==
    /\ process = "running"
    /\ pc[t] = "child"
    /\ \E ok \in BOOLEAN :
          pc' = [pc EXCEPT ![t] = IF ok THEN "from_spawn" ELSE "fatal"]
    /\ UNCHANGED <<streamVars, envVars>>
    /\ UNCHANGED <<m_number_of_external_processes, cur, calls, neg_at_call,
                   hpc, old_value, exit_calls, process, hist>>

\* transition_from_spawn_process: fetch_add(-1) and the branch on `previous`
FromSpawnProcess(t) ==
    /\ process = "running"
    /\ pc[t] = "from_spawn"
    /\ LET previous == counter
           res == IF FromSpawnIsLast(previous) THEN "exit"
                  ELSE IF FromSpawnMustWait(previous) THEN "wait"
                  ELSE "ok"
       IN /\ m_number_of_external_processes' = FromSpawnTarget(previous)
          /\ pc' = [pc EXCEPT ![t] = CASE res = "exit" -> "exit_call"
                                       [] res = "wait" -> "wait_from_spawn"
                                       [] OTHER -> "returning"]
          /\ hist' = Record(Event("from", t, res))
    /\ UNCHANGED <<streamVars, envVars>>
    /\ UNCHANGED <<cur, calls, neg_at_call, hpc, old_value, exit_calls, process>>

\* lines 519-526 and 595-600: after a post-completion that found no Ctrl-C the call
\* prints its debug line and returns the exit code to its caller
ReturnToCaller(t) ==
    /\ process = "running"
    /\ pc[t] = "returning"
    /\ pc' = [pc EXCEPT ![t] = "idle"]
    /\ UNCHANGED <<streamVars, envVars>>
    /\ UNCHANGED <<m_number_of_external_processes, cur, calls, neg_at_call,
                   hpc, old_value, exit_calls, process, hist>>

\* line 61: Checks::final_cleanup_and_exit(1) is invoked by post-completion
FromSpawnExit(t) ==
    /\ process = "running"
    /\ pc[t] = "exit_call"
    /\ pc' = [pc EXCEPT ![t] = "in_exit"]
    /\ exit_calls' = exit_calls + 1
    /\ UNCHANGED <<streamVars, envVars>>
    /\ UNCHANGED <<m_number_of_external_processes, cur, calls, neg_at_call,
                   hpc, old_value, process, hist>>

\* lines 45-49 and 68-72: sleep 10 s, print, repeat
WaitLoop(t) ==
    /\ process = "running"
    /\ pc[t] \in {"wait_to_spawn", "wait_from_spawn"}
    /\ UNCHANGED vars

(***************************************************************************)
(* ctrl_handler / transition_handle_ctrl_c.                                *)
(***************************************************************************)
\* a CTRL_C_EVENT is delivered: ctrl_handler runs on its own context; `int old_value = 0`
DeliverCtrlC(h) ==
    /\ process = "running"
    /\ hpc[h] = "none"
    /\ \A g \in Handlers : g < h => hpc[g] # "none"
    /\ hpc' = [hpc EXCEPT ![h] = "cas"]
    /\ old_value' = [old_value EXCEPT ![h] = 0]
    /\ UNCHANGED <<streamVars, envVars>>
    /\ UNCHANGED <<m_number_of_external_processes, pc, cur, calls, neg_at_call,
                   exit_calls, process, hist>>

\* one iteration of the compare_exchange loop of transition_handle_ctrl_c
HandleCtrlC(h) ==
    /\ process = "running"
    /\ hpc[h] = "cas"
    /\ IF counter = old_value[h]
       THEN /\ m_number_of_external_processes' = HandleCtrlCTarget(old_value[h])
            /\ hpc' = [hpc EXCEPT ![h] = IF HandleCtrlCExitsNow(old_value[h])
                                         THEN "exit_call" ELSE "returned"]
            /\ hist' = Record(Event("ctrl", h, IF HandleCtrlCExitsNow(old_value[h])
                                               THEN "exit" ELSE "defer"))
            /\ UNCHANGED old_value
       ELSE /\ old_value' = [old_value EXCEPT ![h] = counter]
            /\ IF HandleCtrlCIsRepeat(counter)
               THEN /\ hpc' = [hpc EXCEPT ![h] = "returned"]
                    /\ hist' = Record(Event("ctrl", h, "repeat"))
               ELSE UNCHANGED <<hpc, hist>>
            /\ UNCHANGED m_number_of_external_processes
    /\ UNCHANGED <<streamVars, envVars>>
    /\ UNCHANGED <<pc, cur, calls, neg_at_call, exit_calls, process>>

\* line 90: Checks::final_cleanup_and_exit(1) is invoked by the handler
HandleCtrlCExit(h) ==
    /\ process = "running"
    /\ hpc[h] = "exit_call"
    /\ hpc' = [hpc EXCEPT ![h] = "in_exit"]
    /\ exit_calls' = exit_calls + 1
    /\ UNCHANGED <<streamVars, envVars>>
    /\ UNCHANGED <<m_number_of_external_processes, pc, cur, calls, neg_at_call,
                   old_value, process, hist>>

(***************************************************************************)
(* Checks (checks.cpp): the process ends.                                  *)
(***************************************************************************)
\* Checks::final_cleanup_and_exit(1) does not return: the process ends with status 1
FinalCleanupAndExit ==
    /\ process = "running"
    /\ \/ \E t \in Threads : pc[t] = "in_exit"
       \/ \E h \in Handlers : hpc[h] = "in_exit"
    /\ process' = "exit_1"
    /\ UNCHANGED <<streamVars, envVars>>
    /\ UNCHANGED <<m_number_of_external_processes, pc, cur, calls, neg_at_call,
                   hpc, old_value, exit_calls, hist>>

\* Checks::check_exit / Checks::exit_fail on a failed launch: the process ends
ChecksExitFail ==
    /\ process = "running"
    /\ \E t \in Threads : pc[t] = "fatal"
    /\ process' = "exit_fatal"
    /\ UNCHANGED <<streamVars, envVars>>
    /\ UNCHANGED <<m_number_of_external_processes, pc, cur, calls, neg_at_call,
                   hpc, old_value, exit_calls, hist>>

Next ==
    \/ \E t \in Threads : Call(t)
    \/ \E t \in Threads : ToSpawnProcess(t)
    \/ \E t \in Threads : CreateProcess(t)
    \/ \E t \in Threads : WaitChild(t)
    \/ \E t \in Threads : FromSpawnProcess(t)
    \/ \E t \in Threads : ReturnToCaller(t)
    \/ \E t \in Threads : FromSpawnExit(t)
    \/ \E t \in Threads : WaitLoop(t)
    \/ \E h \in Handlers : DeliverCtrlC(h)
    \/ \E h \in Handlers : HandleCtrlC(h)
    \/ \E h \in Handlers : HandleCtrlCExit(h)
    \/ FinalCleanupAndExit
    \/ ChecksExitFail

Spec == Init /\ [][Next]_vars

(***************************************************************************)
(* Properties of the Ctrl-C state machine.                                 *)
(***************************************************************************)

\* C1: under every interleaving of pre-spawns, post-completions and Ctrl-C
\* deliveries, final_cleanup_and_exit(1) is invoked at most once in total, counting
\* the handler path and the post-completion path together (and at most one thread or
\* handler context is ever committed to invoking it).
C1_ExitAtMostOnce ==
    /\ exit_calls <= 1
    /\ Cardinality(ExitingThreads) + Cardinality(ExitingHandlers) <= 1

\* C1 witness: a post-completion has invoked the shutdown after a Ctrl-C whose
\* repeat was delivered too, while the other thread sleeps.
C1_Witness ==
    /\ exit_calls = 1
    /\ \E t \in Threads : pc[t] = "in_exit"
    /\ \E t \in Threads : pc[t] = "wait_from_spawn"
    /\ \A h \in Handlers : hpc[h] = "returned"

\* C2: whenever the handler or a post-completion is at or inside
\* final_cleanup_and_exit(1), no thread is between a successful pre-spawn and its
\* post-completion (the thread shutting down has already performed its own).
C2_NoExitWhileOutstanding ==
    (ExitingThreads # {} \/ ExitingHandlers # {}) => Outstanding = {}

\* C2 witness: the last of two children has completed after a Ctrl-C and its thread
\* is shutting down; the thread of the first one sleeps.
C2_Witness ==
    \E t, u \in Threads :
        /\ pc[t] = "in_exit"
        /\ InHist(Event("from", u, "wait"))
        /\ InHist(Event("from", t, "exit"))

\* C6: a pre-spawn invoked while the counter is negative never reaches process
\* creation: the thread stays in the compare-exchange loop or sleeps forever.
C6_NoSpawnAfterInterrupt ==
    \A t \in Threads :
        neg_at_call[t] => pc[t] \in {"to_spawn", "wait_to_spawn"}

\* C6 witness: a thread that called while the counter was negative sleeps in the
\* loop of transition_to_spawn_process.
C6_Witness ==
    \E t \in Threads : neg_at_call[t] /\ pc[t] = "wait_to_spawn" /\ cur[t] < 0

\* C8: as long as no Ctrl-C is delivered the counter is the number of threads between
\* pre-spawn and post-completion, nothing sleeps and nothing shuts down; once every
\* pre-spawn has had its post-completion the counter is 0 again.
C8_PlainRefCount ==
    (\A h \in Handlers : hpc[h] = "none") =>
        /\ counter = Cardinality(Outstanding)
        /\ Waiting = {}
        /\ ExitingThreads = {} /\ exit_calls = 0
        /\ (Outstanding = {} => counter = 0)

\* C8 witness: from idle, two pre-spawns then two post-completions, back at 0.
C8_Witness ==
    /\ \A h \in Handlers : hpc[h] = "none"
    /\ counter = 0
    /\ Len(hist) = 4
    /\ hist[1].op = "to" /\ hist[1].res = "ok"
    /\ hist[2].op = "to" /\ hist[2].res = "ok"
    /\ hist[3].op = "from" /\ hist[3].res = "ok"
    /\ hist[4].op = "from" /\ hist[4].res = "ok"
    /\ \A t \in Threads : pc[t] = "idle"

(***************************************************************************)
(* The same program under the scheduling the code relies on: as long as    *)
(* some thread or handler context can take a step, a created child can     *)
(* exit (WaitChild), or a process inside final_cleanup_and_exit can end,   *)
(* one of these steps is eventually taken.  Entering a call and delivering *)
(* a Ctrl-C are up to the environment and carry no fairness.               *)
(***************************************************************************)
Progress ==
    \/ \E t \in Threads :
          \/ ToSpawnProcess(t)
          \/ CreateProcess(t)
          \/ WaitChild(t)
          \/ FromSpawnProcess(t)
          \/ ReturnToCaller(t)
          \/ FromSpawnExit(t)
    \/ \E h \in Handlers : HandleCtrlC(h) \/ HandleCtrlCExit(h)
    \/ FinalCleanupAndExit
    \/ ChecksExitFail

Fairness == WF_vars(Progress)

LiveSpec == Init /\ [][Next]_vars /\ Fairness

\* a Ctrl-C is recorded, nothing is outstanding, the process still runs, and nobody
\* is on the way to final_cleanup_and_exit(1)
C3_Stuck ==
    /\ InterruptRecorded
    /\ Outstanding = {}
    /\ process = "running"
    /\ ExitingThreads = {} /\ ExitingHandlers = {}

\* C3: once a Ctrl-C is recorded while children are outstanding, the process
\* eventually ends with status 1, unless a launch or a wait fails (that child's
\* thread never reaches post-completion); and no state has the Ctrl-C recorded, all
\* children drained, the process running and nobody about to shut it down.
C3_DeferredExitHappens ==
    /\ [](~C3_Stuck)
    /\ (InterruptRecorded /\ Outstanding # {})
          ~> (process = "exit_1" \/ \E t \in Threads : pc[t] = "fatal")

\* C3 witness: the process has ended with status 1 through a post-completion, after
\* a Ctrl-C that found children outstanding.
C3_Witness ==
    /\ process = "exit_1"
    /\ \E t \in Threads : pc[t] = "in_exit"
    /\ \E h \in Handlers : InHist(Event("ctrl", h, "defer"))

\* a step of handler context h
HandlerMoves(h) == hpc'[h] # hpc[h] \/ old_value'[h] # old_value[h]

\* C4: a handler whose exchange succeeds on a counter of 0 goes on to invoke
\* final_cleanup_and_exit(1) itself, and the process then ends with status 1 without
\* any post-completion; one whose exchange succeeds on a positive counter returns
\* (the pre-spawns counted before it defer the shutdown); and while the handler is
\* shutting down no thread has spawned or is about to: the counter stays INT_MIN.
C4_ImmediateExitWhenIdle ==
    /\ [][\A h \in Handlers :
            (hpc[h] = "cas" /\ counter = old_value[h] /\ HandlerMoves(h)) =>
               /\ counter = 0 => (hpc'[h] = "exit_call" /\ counter' = INT_MIN)
               /\ counter > 0 => (hpc'[h] = "returned" /\ counter' = INT_MIN + counter)]_vars
    /\ [](ExitingHandlers # {} =>
            /\ counter = INT_MIN
            /\ Outstanding = {}
            /\ ExitingThreads = {}
            /\ process # "exit_fatal")
    /\ (ExitingHandlers # {}) ~> (process = "exit_1")

\* C4 witness: the handler has shut the process down from idle while a thread that
\* raced its pre-spawn against the Ctrl-C sleeps without having spawned.
C4_Witness ==
    /\ process = "exit_1"
    /\ \E h \in Handlers : hpc[h] = "in_exit" /\ old_value[h] = 0
    /\ \E t \in Threads : pc[t] = "wait_to_spawn" /\ ~neg_at_call[t]

\* the history starts: pre-spawn by some thread from idle, then a Ctrl-C, then a
\* pre-spawn invoked by another thread
C5_InterruptBetweenPreSpawns ==
    /\ Len(hist) >= 3
    /\ hist[1].op = "to" /\ hist[1].res = "ok"
    /\ hist[2].op = "ctrl"
    /\ hist[3].op = "to"

\* the history starts: two pre-spawns from idle, then a Ctrl-C
C5_InterruptAfterPreSpawns ==
    /\ Len(hist) >= 3
    /\ hist[1].op = "to" /\ hist[1].res = "ok"
    /\ hist[2].op = "to" /\ hist[2].res = "ok"
    /\ hist[3].op = "ctrl"

\* the post-completions of the history, in order
IsFrom(e) == e.op = "from"
Froms == SelectSeq(hist, IsFrom)

\* C5 as stated: from idle, after pre-spawn, Ctrl-C, second pre-spawn, the first
\* post-completion enters the waiting branch and the second one shuts down.
C5_AsStated ==
    C5_InterruptBetweenPreSpawns =>
        /\ Len(Froms) >= 1 => Froms[1].res = "wait"
        /\ Len(Froms) >= 2 => Froms[2].res = "exit"

\* C5 amended: with the Ctrl-C between the two pre-spawns the second pre-spawn
\* enters the wait loop and leaves the counter alone, so there is one
\* post-completion only, by the thread of the first pre-spawn, and it shuts down;
\* with the Ctrl-C after both pre-spawns the first post-completion enters the
\* waiting branch and the second one shuts down.
C5_Amended ==
    /\ C5_InterruptBetweenPreSpawns =>
          /\ hist[2].res = "defer"
          /\ hist[3].res = "wait"
          /\ Len(Froms) <= 1
          /\ Len(Froms) = 1 => (Froms[1].res = "exit" /\ Froms[1].who = hist[1].who)
    /\ C5_InterruptAfterPreSpawns =>
          /\ hist[3].res = "defer"
          /\ Len(Froms) >= 1 => Froms[1].res = "wait"
          /\ Len(Froms) >= 2 => Froms[2].res = "exit"

\* C5 witness: pre-spawn, Ctrl-C, second pre-spawn, and the one post-completion has
\* shut the process down.
C5_Witness ==
    /\ C5_InterruptBetweenPreSpawns
    /\ Len(Froms) = 1
    /\ process = "exit_1"

\* the other order has run to the shutdown too
C5_WitnessAfter ==
    /\ C5_InterruptAfterPreSpawns
    /\ Len(Froms) = 2
    /\ process = "exit_1"

\* C7: a step of the handler taken while the counter is negative returns without
\* touching the counter and without shutting down, whatever is still outstanding;
\* a handler that found its Ctrl-C to be a repeat never invokes the shutdown.
C7_RepeatIgnored ==
    /\ [][\A h \in Handlers :
            (hpc[h] = "cas" /\ counter < 0 /\ HandlerMoves(h)) =>
               /\ hpc'[h] = "returned"
               /\ counter' = counter
               /\ exit_calls' = exit_calls
               /\ process' = process]_vars
    /\ [](\A h \in Handlers :
            InHist(Event("ctrl", h, "repeat")) => hpc[h] = "returned")

\* C7 witness: a repeated Ctrl-C has returned in the middle of the drain: one child
\* has completed and its thread sleeps, another is still outstanding.
C7_Witness ==
    /\ \E h \in Handlers : hpc[h] = "returned" /\ InHist(Event("ctrl", h, "repeat"))
    /\ \E t \in Threads : pc[t] = "wait_from_spawn"
    /\ Outstanding # {}
    /\ counter = INT_MIN + 1

(***************************************************************************)
(* Output streaming: cmd_execute_and_stream_data and its two callers,      *)
(* followed byte by byte for one child.                                    *)
(***************************************************************************)
Strings == UNION {[1..n -> Bytes] : n \in 0..MaxOut}

Min(a, b) == IF a < b THEN a ELSE b

\* std::find(first, last, ch) on s: the first index >= from holding ch, Len(s) + 1 if none
RECURSIVE StdFind(_, _, _)
StdFind(s, from, ch) ==
    IF from > Len(s) THEN Len(s) + 1
    ELSE IF s[from] = ch THEN from
    ELSE StdFind(s, from + 1, ch)

\* strlen(buf): the bytes before the first NUL
StrLen(s) == StdFind(s, 1, NUL) - 1

\* mutant: the line is cut after its terminator instead of before it
LineText_WithTerminator(b, it) == SubSeq(b, 1, it)

\* line 544: std::string s(buf.begin(), it)
LineText(b, it) == SubSeq(b, 1, it - 1)

\* line 546: buf.erase(buf.begin(), it + 1)
EraseLine(b, it) == SubSeq(b, it + 1, Len(b))

\* lines 542-548: the while loop of the lambda, entered with `it` at the first '\n'
\* at or after `from`; yields <<buf, lines>>
RECURSIVE LinesLoop(_, _, _)
LinesLoop(b, ls, from) ==
    LET it == StdFind(b, from, LF)
    IN IF it = Len(b) + 1 THEN <<b, ls>>
       ELSE LinesLoop(EraseLine(b, it), Append(ls, LineText(b, it)), 1)

\* lines 537-549: the lambda cmd_execute_and_stream_lines passes as data_cb
StreamLinesCallback(b, ls, sv) ==
    LET prev_size == Len(b)
    IN LinesLoop(b \o sv, ls, prev_size + 1)

\* data_cb(sv): the callback of the caller in `api`
DataCb(sv) ==
    /\ chunks' = Append(chunks, sv)
    /\ IF api = "stream_lines"
       THEN /\ buf' = StreamLinesCallback(buf, lines, sv)[1]
            /\ lines' = StreamLinesCallback(buf, lines, sv)[2]
            /\ UNCHANGED output
       ELSE /\ output' = output \o sv
            /\ UNCHANGED <<buf, lines>>

\* the exit statuses a child ends with
ExitStatuses == {0, 42}

\* the value system() and pclose() hand back for a child that exited normally with
\* status s: the wait status, which holds s in its second byte
WaitStatus(s) == s * 256

\* GetExitCodeProcess (line 344): the child's exit status itself
GetExitCodeProcess(s) == s

\* the handles and streams one call creates in the calling process
HandleNames == {"hProcess", "hThread", "child_stdout", "child_stdin",
                "hStdOutput", "hStdInput", "pipe"}

\* CreatePipe / CreateProcessW / popen: the handles in S come into being, open
OpenHandles(hs, S) == [h \in HandleNames |-> IF h \in S THEN "open" ELSE hs[h]]

\* CloseHandle(h) / pclose: an open handle is closed; a second close is recorded
CloseHandle(hs, h) ==
    [hs EXCEPT ![h] = IF @ = "open" THEN "closed" ELSE "closed_twice"]

\* the fields of `call`
exit_status == call.exit_status
rc == call.rc
launch == call.launch
read_error == call.read_error
handles == call.handles
steps == call.steps

StreamInit ==
    /\ CtrlInit
    /\ EnvOff
    /\ platform \in {"win32", "posix"}
    /\ api \in {"execute", "no_wait", "stream_lines", "capture_output"}
    /\ api = "no_wait" => platform = "win32"
    /\ child_out \in Strings
    /\ api \in {"execute", "no_wait"} => child_out = <<>>
    /\ rd = 0
    /\ spc = "start"
    /\ chunks = <<>>
    /\ buf = <<>>
    /\ lines = <<>>
    /\ output = <<>>
    /\ rc_kind = "none"
    /\ call \in {[exit_status |-> s, rc |-> 0, launch |-> "none", read_error |-> FALSE,
                   handles |-> [h \in HandleNames |-> "none"], steps |-> <<>>] :
                     s \in ExitStatuses}

\* lines 514 and 566: g_ctrl_c_state.transition_to_spawn_process(), with no other
\* thread and no Ctrl-C about: the compare-exchange finds the expected 0
PreSpawn ==
    /\ spc = "start" /\ platform = "win32"
    /\ api \in {"execute", "stream_lines", "capture_output"}
    /\ ~ToSpawnMustWait(counter)
    /\ m_number_of_external_processes' = ToSpawnTarget(counter)
    /\ spc' = "create"
    /\ call' = [call EXCEPT !.steps = Append(@, "pre_spawn")]
    /\ UNCHANGED <<pc, cur, calls, neg_at_call, hpc, old_value, exit_calls, process, hist>>
    /\ UNCHANGED envVars
    /\ UNCHANGED <<platform, api, child_out, rd, chunks, buf, lines, output, rc_kind>>

\* line 515 (cmd_execute) and line 468 (cmd_execute_no_wait): windows_create_process;
\* a failed CreateProcessW ends the calling process (Checks::check_exit, line 387)
CreateChild ==
    /\ platform = "win32"
    /\ \/ api = "execute" /\ spc = "create"
       \/ api = "no_wait" /\ spc = "start"
    /\ \/ /\ call' = [call EXCEPT !.launch = "ok",
                                    !.handles = OpenHandles(@, {"hProcess", "hThread"}),
                                    !.steps = Append(@, "create")]
          /\ spc' = IF api = "execute" THEN "wait" ELSE "detached"
       \/ /\ call' = [call EXCEPT !.launch = "failed"]
          /\ spc' = "exit_fail"
    /\ UNCHANGED <<platform, api, child_out, rd, chunks, buf, lines, output, rc_kind>>
    /\ UNCHANGED <<ctrlVars, envVars>>

\* line 469: process_info.close_handles() (lines 351-355), then the function returns
CloseHandlesNoWait ==
    /\ spc = "detached"
    /\ call' = [call EXCEPT !.handles = CloseHandle(CloseHandle(@, "hThread"), "hProcess"),
                            !.steps = Append(@, "return")]
    /\ spc' = "done"
    /\ UNCHANGED <<platform, api, child_out, rd, chunks, buf, lines, output, rc_kind>>
    /\ UNCHANGED <<ctrlVars, envVars>>

\* line 523: system(cmd_line) runs the child to its end and yields its wait status,
\* or -1 when no child could be created; cmd_execute returns that value (line 526)
SystemCall ==
    /\ spc = "start" /\ platform = "posix" /\ api = "execute"
    /\ \/ /\ call' = [call EXCEPT !.launch = "ok",
                                    !.rc = WaitStatus(exit_status),
                                    !.steps = Append(@, "return")]
          /\ rc_kind' = "exit_code"
       \/ /\ call' = [call EXCEPT !.launch = "failed",
                                    !.rc = -1,
                                    !.steps = Append(@, "return")]
          /\ rc_kind' = "minus_one"
    /\ spc' = "done"
    /\ UNCHANGED <<platform, api, child_out, rd, chunks, buf, lines, output>>
    /\ UNCHANGED <<ctrlVars, envVars>>

\* windows_create_process_redirect (line 567, lines 427-460): two pipes, the child,
\* and the child's ends of the pipes closed; a failed CreatePipe /
\* SetHandleInformation / CreateProcessW ends the calling process.
\* popen (line 576): a failed popen makes cmd_execute_and_stream_data return 1
\* (lines 577-580)
StreamOpen ==
    /\ api \in {"stream_lines", "capture_output"}
    /\ \/ /\ platform = "win32" /\ spc = "create"
          /\ call' = [call EXCEPT
                        !.launch = "ok",
                        !.handles =
                           CloseHandle(
                             CloseHandle(
                               OpenHandles(@, {"child_stdout", "hStdOutput", "hStdInput",
                                               "child_stdin", "hProcess", "hThread"}),
                               "hStdInput"),
                             "hStdOutput"),
                        !.steps = Append(@, "create")]
          /\ spc' = "opened"
          /\ UNCHANGED rc_kind
       \/ /\ platform = "win32" /\ spc = "create"
          /\ call' = [call EXCEPT !.launch = "failed"]
          /\ spc' = "exit_fail"
          /\ UNCHANGED rc_kind
       \/ /\ platform = "posix" /\ spc = "start"
          /\ call' = [call EXCEPT !.launch = "ok",
                                    !.handles = OpenHandles(@, {"pipe"}),
                                    !.steps = Append(@, "create")]
          /\ spc' = "read"
          /\ UNCHANGED rc_kind
       \/ /\ platform = "posix" /\ spc = "start"
          /\ call' = [call EXCEPT !.launch = "failed", !.rc = 1]
          /\ spc' = "data_returned"
          /\ rc_kind' = "one"
    /\ UNCHANGED <<platform, api, child_out, rd, chunks, buf, lines, output>>
    /\ UNCHANGED <<ctrlVars, envVars>>

\* line 412: CloseHandle(child_stdin), the first statement of wait_and_stream_output
CloseChildStdin ==
    /\ spc = "opened"
    /\ call' = [call EXCEPT !.handles = CloseHandle(@, "child_stdin")]
    /\ spc' = "read"
    /\ UNCHANGED <<platform, api, child_out, rd, chunks, buf, lines, output, rc_kind>>
    /\ UNCHANGED <<ctrlVars, envVars>>

\* line 416-419: ReadFile returns some of the bytes the pipe holds, at most sizeof(buf)
ReadFileData ==
    /\ spc = "read" /\ platform = "win32"
    /\ rd < Len(child_out)
    /\ \E bytes_read \in 1..Min(BufSize, Len(child_out) - rd) :
          /\ DataCb(SubSeq(child_out, rd + 1, rd + bytes_read))
          /\ rd' = rd + bytes_read
    /\ UNCHANGED <<platform, api, child_out, spc, rc_kind, call>>
    /\ UNCHANGED <<ctrlVars, envVars>>

\* lines 416-421: ReadFile fails, at end of stream (the pipe is broken) or with a read
\* error before it, and ends the loop either way; CloseHandle(child_stdout)
ReadFileEnd ==
    /\ spc = "read" /\ platform = "win32"
    /\ \E error \in BOOLEAN :
          /\ ~error => rd = Len(child_out)
          /\ call' = [call EXCEPT !.read_error = error,
                                    !.handles = CloseHandle(@, "child_stdout"),
                                    !.steps = Append(@, "read_end")]
    /\ spc' = "wait"
    /\ UNCHANGED <<platform, api, child_out, rd, chunks, buf, lines, output, rc_kind>>
    /\ UNCHANGED <<ctrlVars, envVars>>

\* lines 336-349: wait_and_close_handles (called at lines 423 and 516):
\* CloseHandle(hThread), WaitForSingleObject, GetExitCodeProcess,
\* CloseHandle(hProcess); a failed wait ends the calling process (line 341)
WaitAndCloseHandles ==
    /\ spc = "wait"
    /\ \/ /\ call' = [call EXCEPT
                        !.handles = CloseHandle(CloseHandle(@, "hThread"), "hProcess"),
                        !.rc = GetExitCodeProcess(exit_status),
                        !.steps = Append(@, "wait_release")]
          /\ rc_kind' = "exit_code"
          /\ spc' = "post"
       \/ /\ call' = [call EXCEPT !.handles = CloseHandle(@, "hThread")]
          /\ spc' = "exit_fail"
          /\ UNCHANGED rc_kind
    /\ UNCHANGED <<platform, api, child_out, rd, chunks, buf, lines, output>>
    /\ UNCHANGED <<ctrlVars, envVars>>

\* lines 517 and 569: g_ctrl_c_state.transition_from_spawn_process(), with no Ctrl-C
\* about; then cmd_execute returns (line 526) or cmd_execute_and_stream_data does
\* (line 600)
PostCompletion ==
    /\ spc = "post"
    /\ ~FromSpawnMustWait(counter)
    /\ m_number_of_external_processes' = FromSpawnTarget(counter)
    /\ IF api = "execute"
       THEN /\ spc' = "done"
            /\ call' = [call EXCEPT !.steps = @ \o <<"post_completion", "return">>]
       ELSE /\ spc' = "data_returned"
            /\ call' = [call EXCEPT !.steps = Append(@, "post_completion")]
    /\ UNCHANGED <<pc, cur, calls, neg_at_call, hpc, old_value, exit_calls, process, hist>>
    /\ UNCHANGED envVars
    /\ UNCHANGED <<platform, api, child_out, rd, chunks, buf, lines, output, rc_kind>>

\* lines 582-585: fgets stores at most sizeof(buf) - 1 bytes, up to and including a
\* '\n' or up to end of file; data_cb gets the strlen(buf) bytes before the first NUL
FgetsData ==
    /\ spc = "read" /\ platform = "posix"
    /\ rd < Len(child_out)
    /\ LET limit == Min(BufSize - 1, Len(child_out) - rd)
           nl == StdFind(SubSeq(child_out, rd + 1, rd + limit), 1, LF)
           n == Min(limit, nl)
           stored == SubSeq(child_out, rd + 1, rd + n)
       IN /\ DataCb(SubSeq(stored, 1, StrLen(stored)))
          /\ rd' = rd + n
    /\ UNCHANGED <<platform, api, child_out, spc, rc_kind, call>>
    /\ UNCHANGED <<ctrlVars, envVars>>

\* lines 582-592: fgets returns NULL: at end of file pclose closes the stream and
\* yields the child's wait status; on a read error (!feof) the function returns 1
\* at once (lines 587-590)
FgetsNull ==
    /\ spc = "read" /\ platform = "posix"
    /\ \/ /\ rd = Len(child_out)
          /\ call' = [call EXCEPT !.handles = CloseHandle(@, "pipe"),
                                    !.rc = WaitStatus(exit_status),
                                    !.steps = @ \o <<"read_end", "wait_release">>]
          /\ rc_kind' = "exit_code"
       \/ /\ call' = [call EXCEPT !.read_error = TRUE, !.rc = 1]
          /\ rc_kind' = "one"
    /\ spc' = "data_returned"
    /\ UNCHANGED <<platform, api, child_out, rd, chunks, buf, lines, output>>
    /\ UNCHANGED <<ctrlVars, envVars>>

\* line 552: per_line_cb(buf) after cmd_execute_and_stream_data has returned;
\* line 608: cmd_execute_and_capture_output returns {rc, output}
CallerReturns ==
    /\ spc = "data_returned"
    /\ spc' = "done"
    /\ IF api = "stream_lines"
       THEN lines' = Append(lines, buf)
       ELSE UNCHANGED lines
    /\ call' = [call EXCEPT !.steps = Append(@, "return")]
    /\ UNCHANGED <<platform, api, child_out, rd, chunks, buf, output, rc_kind>>
    /\ UNCHANGED <<ctrlVars, envVars>>

StreamNext ==
    \/ PreSpawn
    \/ CreateChild
    \/ CloseHandlesNoWait
    \/ SystemCall
    \/ StreamOpen
    \/ CloseChildStdin
    \/ ReadFileData
    \/ ReadFileEnd
    \/ WaitAndCloseHandles
    \/ PostCompletion
    \/ FgetsData
    \/ FgetsNull
    \/ CallerReturns

StreamSpec == StreamInit /\ [][StreamNext]_vars

(***************************************************************************)
(* Properties of the output streaming.                                     *)
(***************************************************************************)
\* the concatenation of a sequence of strings
RECURSIVE Flatten(_)
Flatten(ss) == IF ss = <<>> THEN <<>> ELSE Head(ss) \o Flatten(Tail(ss))

\* the strings of ss joined with '\n' between them
RECURSIVE JoinLF(_)
JoinLF(ss) ==
    IF ss = <<>> THEN <<>>
    ELSE IF Len(ss) = 1 THEN Head(ss)
    ELSE Head(ss) \o <<LF>> \o JoinLF(Tail(ss))

\* the number of line terminators in s
CountLF(s) == Cardinality({i \in 1..Len(s) : s[i] = LF})

\* the pipe was read to its end without an error
ReadToEnd == rd = Len(child_out) /\ rc_kind = "exit_code" /\ ~read_error

\* C9: when cmd_execute_and_stream_lines is done, whatever the chunks data_cb was
\* called with, per_line_cb has been called once more than there are '\n' in their
\* concatenation, no emitted line holds a '\n', and the lines joined with '\n' are
\* that concatenation exactly; on the _WIN32 path, read to the end, that is the
\* child's whole output.
C9_LinesRoundTrip ==
    (api = "stream_lines" /\ spc = "done") =>
        /\ Len(lines) = CountLF(Flatten(chunks)) + 1
        /\ \A i \in 1..Len(lines) : CountLF(lines[i]) = 0
        /\ JoinLF(lines) = Flatten(chunks)
        /\ (platform = "win32" /\ ReadToEnd) =>
              (JoinLF(lines) = child_out /\ Len(lines) = CountLF(child_out) + 1)

\* C9 witness: an output with two terminators, the second one last, arrived in
\* several chunks with a terminator at a chunk's start; three lines, the last empty.
C9_Witness ==
    /\ api = "stream_lines" /\ spc = "done" /\ platform = "win32" /\ ReadToEnd
    /\ CountLF(child_out) = 2
    /\ child_out[Len(child_out)] = LF
    /\ Len(chunks) >= 2
    /\ \E i \in 2..Len(chunks) : chunks[i][1] = LF
    /\ Len(lines) = 3
    /\ lines[3] = <<>>

\* C10 as stated: for every output read without an error, the chunks passed to
\* data_cb concatenate to the child's whole output, and
\* cmd_execute_and_capture_output returns exactly that.
C10_ChunksComplete ==
    (spc \in {"data_returned", "done"} /\ ReadToEnd) =>
        /\ Flatten(chunks) = child_out
        /\ (api = "capture_output" /\ spc = "done") => output = child_out

\* what the code does keep: on the _WIN32 path always, and on the other path for an
\* output without NUL bytes
C10_HoldsWithoutNul ==
    (spc \in {"data_returned", "done"} /\ ReadToEnd
       /\ (platform = "win32" \/ \A i \in 1..Len(child_out) : child_out[i] # NUL)) =>
        /\ Flatten(chunks) = child_out
        /\ (api = "capture_output" /\ spc = "done") => output = child_out

\* C10 witness: on the non-Windows path a captured output holding a NUL comes back
\* without it.
C10_Witness ==
    /\ platform = "posix" /\ api = "capture_output" /\ spc = "done" /\ ReadToEnd
    /\ child_out = <<Letter, NUL>>
    /\ output = <<Letter>>

(***************************************************************************)
(* Properties of the calls' return values and handles.                     *)
(***************************************************************************)
\* cmd_execute_and_stream_data has returned to its caller
DataReturned ==
    api \in {"stream_lines", "capture_output"} /\ spc \in {"data_returned", "done"}

\* the call has returned to its caller
CallReturned == spc = "done" \/ DataReturned

\* the handles and streams of the call that exist and were never closed
StillOpen == {h \in HandleNames : handles[h] = "open"}

\* the handles and streams of the call that were closed more than once
ClosedTwice == {h \in HandleNames : handles[h] = "closed_twice"}

\* C11 as stated: when the read loop of cmd_execute_and_stream_data was ended by an
\* I/O error, the call returns a non-zero value whatever the child's exit status,
\* and what the callback was given before the error stays delivered.
C11_ReadErrorSentinel ==
    (DataReturned /\ read_error) =>
        /\ rc # 0
        /\ Len(Flatten(chunks)) <= rd
        /\ (api = "capture_output") => output = Flatten(chunks)

\* what the code does keep: on the non-Windows path a read error yields 1; on either
\* path the chunks delivered before the error stay delivered
C11_HoldsOnPosix ==
    (DataReturned /\ read_error) =>
        /\ (platform = "posix") => rc = 1
        /\ (platform = "win32") => rc = GetExitCodeProcess(exit_status)
        /\ Len(Flatten(chunks)) <= rd
        /\ (api = "capture_output") => output = Flatten(chunks)

\* C11 witness: on the _WIN32 path a read error after a delivered chunk, a child
\* that exits with 0, and the call returns 0.
C11_Witness ==
    /\ DataReturned /\ read_error /\ platform = "win32"
    /\ chunks # <<>> /\ rd < Len(child_out)
    /\ exit_status = 0 /\ rc = 0

\* C12 as stated: when the child or its pipes could not be created, no function
\* returns to its caller: the calling process is ended.
C12_LaunchFailureFatal ==
    (launch = "failed") => (~CallReturned /\ spc = "exit_fail")

\* what the code does keep: on the _WIN32 path a failed launch ends the process
C12_HoldsOnWin32 ==
    (launch = "failed" /\ platform = "win32") => (~CallReturned /\ spc = "exit_fail")

\* C12 witness: on the non-Windows path popen failed and
\* cmd_execute_and_capture_output came back with exit code 1.
C12_Witness ==
    /\ platform = "posix" /\ api = "capture_output"
    /\ launch = "failed" /\ spc = "done" /\ rc = 1

\* C13 as stated: once cmd_execute, cmd_execute_no_wait or
\* cmd_execute_and_stream_data has returned, nothing the call created is still open
\* and nothing was closed twice.
C13_HandlesClosedOnce ==
    /\ CallReturned => StillOpen = {}
    /\ ClosedTwice = {}

\* what the code does keep: nothing is closed twice, and nothing stays open except
\* the popen stream after a read error
C13_HoldsButPopenStream ==
    /\ CallReturned => (StillOpen = IF platform = "posix" /\ read_error
                                    THEN {"pipe"} ELSE {})
    /\ ClosedTwice = {}

\* C13 witness: on the non-Windows path the call returned after a read error and the
\* popen stream is still open.
C13_Witness ==
    /\ platform = "posix" /\ DataReturned /\ read_error
    /\ handles["pipe"] = "open"

\* a child was created, its output read to the end without an error, and the call
\* has returned
RanToCompletion ==
    /\ launch = "ok"
    /\ ~read_error
    /\ rd = Len(child_out)
    /\ api # "no_wait"
    /\ CallReturned

\* C14 as stated: for a child launched and read without error, each of cmd_execute,
\* cmd_execute_and_stream_data, _stream_lines and _capture_output returns the
\* child's exit status exactly.
C14_ExitStatusExact ==
    RanToCompletion => rc = exit_status

\* what the code does keep: the four functions agree with each other on either
\* path: the exit status on the _WIN32 path, the wait status on the other
C14_SameAcrossFunctions ==
    RanToCompletion =>
        rc = IF platform = "win32" THEN GetExitCodeProcess(exit_status)
             ELSE WaitStatus(exit_status)

\* C14 witness: on the non-Windows path a child that exited with 42 does not yield 42.
C14_Witness ==
    /\ platform = "posix" /\ api = "execute" /\ spc = "done" /\ launch = "ok"
    /\ exit_status = 42 /\ rc # 42

(***************************************************************************)
(* Order of the steps of one blocking call.                                *)
(***************************************************************************)
\* the steps of a complete blocking call on the _WIN32 path, in order
BlockingSteps ==
    IF api = "execute"
    THEN <<"pre_spawn", "create", "wait_release", "post_completion", "return">>
    ELSE <<"pre_spawn", "create", "read_end", "wait_release", "post_completion", "return">>

IsPrefix(s, t) == Len(s) <= Len(t) /\ s = SubSeq(t, 1, Len(s))

StepDone(name) == \E i \in 1..Len(steps) : steps[i] = name

Tails == UNION {[1..n -> EnvBytes] : n \in 0..MaxTail}

\* the output of `set` for two variables: "a=a\r\nb=b\r\n"
TwoVars == <<Letter, EQ, Letter, CR, LF, LetterB, EQ, LetterB, CR, LF>>

\* what the captured output starts with: nothing, the sentinel line, the sentinel
\* line and two variables, the sentinel line after other output, the sentinel with
\* a bare '\n'
Heads ==
    { <<>>,
      magic_string \o <<CR, LF>>,
      magic_string \o <<CR, LF>> \o TwoVars,
      <<Letter, CR, LF>> \o magic_string \o <<CR, LF>>,
      magic_string \o <<LF>> }

\* Strings::search(haystack, needle) from index `from`: the index of the first
\* occurrence of needle, Len(haystack) + 1 (the end iterator) if there is none
RECURSIVE SearchFrom(_, _, _)
SearchFrom(s, needle, from) ==
    IF from + Len(needle) - 1 > Len(s) THEN Len(s) + 1
    ELSE IF SubSeq(s, from, from + Len(needle) - 1) = needle THEN from
    ELSE SearchFrom(s, needle, from + 1)

StringsSearch(s, needle) == SearchFrom(s, needle, 1)

\* mutant: the sentinel is looked for without its line terminator
SentinelNeedle_NoTerminator == magic_string

\* line 482: Strings::concat(magic_string, "\r\n")
SentinelNeedle == magic_string \o <<CR, LF>>

\* mutant: a non-zero exit code of the setup command is let through
ExitCodeOk_Always(c) == TRUE

\* line 481: rc_output.exit_code == 0
ExitCodeOk(c) == c = 0

\* line 485: it += magic_string.size() + 2
AfterSentinel(i) == i + Len(magic_string) + 2

\* Checks::check_exit(line_info, cond): the process goes on to `next` when cond
\* holds and is ended otherwise
ChecksCheckExit(cond, next) == IF cond THEN next ELSE "exit_fail"

\* Strings::to_utf16 on ASCII text: one code unit per byte, of the same value
ToUtf16(s) == [i \in 1..Len(s) |-> s[i]]

\* lines 498-499: out_env.append(to_utf16(concat(varname, '=', value)));
\* out_env.push_back(L'\0')
AppendEntry(env, varname, value) == env \o ToUtf16(varname \o <<EQ>> \o value) \o <<NUL>>

\* cmd_execute_and_capture_output has returned rc_output (line 480)
ModifyEnvInit ==
    /\ platform = "win32"
    /\ e_state \in {[EnvStart EXCEPT !.efn = "modify_env", !.epc = "start",
                                  !.captured = h \o t, !.exit_code = c] :
                   h \in Heads, t \in Tails, c \in {0, 1}}

\* line 481: Checks::check_exit(VCPKG_LINE_INFO, rc_output.exit_code == 0)
ModifyEnvCheckExitCode ==
    /\ efn = "modify_env" /\ epc = "start"
    /\ e_state' = [e_state EXCEPT !.epc = ChecksCheckExit(ExitCodeOk(exit_code), "search")]
    /\ UNCHANGED <<ctrlVars, streamVars>>

\* lines 482-485: the sentinel is searched; Checks::check_exit(it != e); `it` is moved past it
ModifyEnvSearch ==
    /\ efn = "modify_env" /\ epc = "search"
    /\ LET found == StringsSearch(captured, SentinelNeedle)
           e == Len(captured) + 1
       IN e_state' = [e_state EXCEPT !.epc = ChecksCheckExit(found # e, "parse"),
                             !.m_it = IF found # e THEN AfterSentinel(found) ELSE @]
    /\ UNCHANGED <<ctrlVars, streamVars>>

\* lines 489-505: one pass through the while loop: an entry is appended, or the
\* loop breaks and out_env is returned
ModifyEnvParse ==
    /\ efn = "modify_env" /\ epc = "parse"
    /\ LET e == Len(captured) + 1
           eq == StdFind(captured, m_it, EQ)
           nl == StdFind(captured, eq + 1, CR)
       IN IF eq = e \/ nl = e
          THEN e_state' = [e_state EXCEPT !.epc = "returned"]
          ELSE e_state' = [e_state EXCEPT
                         !.out_env = AppendEntry(@, SubSeq(captured, m_it, eq - 1),
                                                 SubSeq(captured, eq + 1, nl - 1)),
                         !.m_it = IF nl + 1 # e /\ captured[nl + 1] = LF
                                  THEN nl + 2 ELSE nl + 1]
    /\ UNCHANGED <<ctrlVars, streamVars>>

\* lines 221-274: the fixed allow-list env_wstrings, scaled down to two names
FixedList == <<"SystemRoot", "TEMP">>

\* the values of VCPKG_KEEP_ENV_VARS, as the names Strings::split(*k, ";") yields
\* (lines 276-287); unset or empty yields none
KeepVarsValues == {<<>>, <<"KEEPME">>, <<"TEMP">>, <<"PATH">>}

\* the keys a caller may put into extra_env
ExtraKeys == {"PATH", "Path", "TEMP", "NEW"}

\* the environments of the calling process: SystemRoot, TEMP and KEEPME are set or
\* not ("" stands for unset or empty), SECRET and PATH are set
ProcessEnvs ==
    {[SystemRoot |-> r, TEMP |-> t, KEEPME |-> k, SECRET |-> "s", PATH |-> "p"] :
        r \in {"", "r"}, t \in {"", "t"}, k \in {"", "k"}}

\* the extra_env maps of the model: any set of keys, each with the value "x"
ExtraEnvs == UNION {[K -> {"x"}] : K \in SUBSET ExtraKeys}

\* the orders in which a range-for may visit the keys of an unordered_map
Orders(K) == {o \in [1..Cardinality(K) -> K] : \A i, j \in 1..Cardinality(K) : o[i] = o[j] => i = j}

\* names of environment variables are compared without regard to letter case by
\* GetEnvironmentVariableW and by the child's environment: "Path" is "PATH"
NameKey(n) == IF n = "Path" THEN "PATH" ELSE n

\* lines 611-624: get_environment_variable: nullopt (here "") when the variable is
\* unset or empty
GetEnvironmentVariable(env, name) ==
    IF NameKey(name) \in DOMAIN env THEN env[NameKey(name)] ELSE ""

Entry(name, value) == [name |-> name, value |-> value]

\* lines 291-301: one entry per name of env_wstrings whose value is set and not empty
RECURSIVE BaseEntries(_, _)
BaseEntries(env, names) ==
    IF names = <<>> THEN <<>>
    ELSE LET v == GetEnvironmentVariable(env, Head(names))
         IN (IF v = "" THEN <<>> ELSE <<Entry(Head(names), <<v>>)>>)
            \o BaseEntries(env, Tail(names))

\* lines 214-219 and 303-306: "Path=" with prepend_to_path, the system directories
\* under SYSTEM_ROOT and, when extra_env has the key "PATH", its value appended
NewPath(env, extra, prepend) ==
    Entry("Path", <<prepend, GetEnvironmentVariable(env, "SystemRoot")>>
                  \o (IF "PATH" \in DOMAIN extra THEN <<extra["PATH"]>> ELSE <<>>))

\* mutant: the fixed entry is left out
FixedEntries_None == <<>>

\* lines 307-308: env_cstr.append(L"VSLANG=1033")
FixedEntries == <<Entry("VSLANG", <<"1033">>)>>

\* line 312: if (item.first == "PATH") continue
ExtraIsPath(key) == key = "PATH"

\* lines 310-317: one entry per item of extra_env, in iteration order
RECURSIVE ExtraEntries(_, _)
ExtraEntries(extra, order) ==
    IF order = <<>> THEN <<>>
    ELSE (IF ExtraIsPath(Head(order)) THEN <<>>
          ELSE <<Entry(Head(order), <<extra[Head(order)]>>)>>)
         \o ExtraEntries(extra, Tail(order))

\* lines 289-319: the block of the _WIN32 build
WindowsBlock(env, keep, extra, order, prepend) ==
    BaseEntries(env, FixedList \o keep)
      \o <<NewPath(env, extra, prepend)>>
      \o FixedEntries
      \o ExtraEntries(extra, order)

\* a call of get_environment(extra_env, prepend_to_path)
GetEnvInit ==
    /\ platform \in {"win32", "posix"}
    /\ e_state \in {[EnvStart EXCEPT !.efn = "get_environment", !.epc = "start",
                                  !.penv = pe, !.keep_vars = k, !.extra_env = x,
                                  !.prepend_to_path = p] :
                   pe \in ProcessEnvs, k \in KeepVarsValues, x \in ExtraEnvs,
                   p \in {"", "pre;"}}

\* lines 208-323: get_environment; on the _WIN32 build value_or_exit (line 212) ends
\* the process when SystemRoot is not set; the other build returns the empty block
GetEnvironment ==
    /\ efn = "get_environment" /\ epc = "start"
    /\ \/ /\ platform = "posix"
          /\ e_state' = [e_state EXCEPT !.block = <<>>, !.epc = "returned"]
       \/ /\ platform = "win32"
          /\ GetEnvironmentVariable(penv, "SystemRoot") = ""
          /\ e_state' = [e_state EXCEPT !.epc = "exit_fail"]
       \/ /\ platform = "win32"
          /\ GetEnvironmentVariable(penv, "SystemRoot") # ""
          /\ \E order \in Orders(DOMAIN extra_env) :
                e_state' = [e_state EXCEPT
                          !.block = WindowsBlock(penv, keep_vars, extra_env, order,
                                                 prepend_to_path),
                          !.epc = "returned"]
    /\ UNCHANGED <<ctrlVars, streamVars>>

\* mutant: clean_env is an ordinary local, constructed by every call
StaticInitNeeded_Always(state) == state # "constructing"

\* line 327: `static const Environment clean_env`: the initialiser runs when control
\* first passes through the declaration
StaticInitNeeded(state) == state = "uninit"

\* a process whose threads call get_clean_environment
CleanInit ==
    /\ platform \in {"win32", "posix"}
    /\ e_state \in {[EnvStart EXCEPT !.efn = "get_clean_environment", !.epc = "run",
                                  !.penv = pe, !.keep_vars = k, !.built_from = pe] :
                   pe \in ProcessEnvs, k \in {<<>>, <<"KEEPME">>}}

\* line 325: a thread calls get_clean_environment
CleanCall(t) ==
    /\ efn = "get_clean_environment" /\ epc = "run"
    /\ gpc[t] = "idle"
    /\ clean_calls < MaxCalls
    /\ e_state' = [e_state EXCEPT !.clean_calls = @ + 1, !.gpc[t] = "enter"]
    /\ UNCHANGED <<ctrlVars, streamVars>>

\* line 327: control reaches the declaration of the static: the first thread starts
\* the initialisation, a thread arriving during it waits, later ones pass
CleanEnter(t) ==
    /\ efn = "get_clean_environment" /\ epc = "run"
    /\ gpc[t] = "enter"
    /\ IF StaticInitNeeded(clean_state)
       THEN e_state' = [e_state EXCEPT !.clean_state = "constructing", !.gpc[t] = "construct"]
       ELSE /\ clean_state = "done"
            /\ e_state' = [e_state EXCEPT !.gpc[t] = "return"]
    /\ UNCHANGED <<ctrlVars, streamVars>>

\* line 327: the initialiser get_environment({}) runs (lines 208-323); on the _WIN32
\* build value_or_exit (line 212) ends the process when SystemRoot is not set
CleanConstruct(t) ==
    /\ efn = "get_clean_environment" /\ epc = "run"
    /\ gpc[t] = "construct"
    /\ IF platform = "win32" /\ GetEnvironmentVariable(penv, "SystemRoot") = ""
       THEN e_state' = [e_state EXCEPT !.epc = "exit_fail"]
       ELSE e_state' = [e_state EXCEPT
                      !.clean_env = IF platform = "win32"
                                    THEN WindowsBlock(penv, keep_vars, <<>>, <<>>, "")
                                    ELSE <<>>,
                      !.constructions = @ + 1,
                      !.clean_state = "done",
                      !.built_from = penv,
                      !.gpc[t] = "return"]
    /\ UNCHANGED <<ctrlVars, streamVars>>

\* line 328: return clean_env
CleanReturn(t) ==
    /\ efn = "get_clean_environment" /\ epc = "run"
    /\ gpc[t] = "return"
    /\ e_state' = [e_state EXCEPT !.ret[t] = Returned(constructions, clean_env),
                           !.gpc[t] = "idle"]
    /\ UNCHANGED <<ctrlVars, streamVars>>

\* the environment of the process changes (a variable is set or cleared)
SetEnv ==
    /\ efn = "get_clean_environment" /\ epc = "run"
    /\ \E e \in ProcessEnvs :
          /\ e # penv
          /\ e_state' = [e_state EXCEPT !.penv = e]
    /\ UNCHANGED <<ctrlVars, streamVars>>

EnvInit ==
    /\ CtrlInit
    /\ StreamIdle
    /\ \/ ModifyEnvInit
       \/ GetEnvInit
       \/ CleanInit

EnvNext ==
    \/ ModifyEnvCheckExitCode
    \/ ModifyEnvSearch
    \/ ModifyEnvParse
    \/ GetEnvironment
    \/ \E t \in Threads : CleanCall(t)
    \/ \E t \in Threads : CleanEnter(t)
    \/ \E t \in Threads : CleanConstruct(t)
    \/ \E t \in Threads : CleanReturn(t)
    \/ SetEnv

EnvSpec == EnvInit /\ [][EnvNext]_vars

(***************************************************************************)
(* Properties of cmd_execute_modify_env.                                   *)
(***************************************************************************)
\* the entries of an Environment block: the code units before each L'\0'
RECURSIVE EnvEntries(_)
EnvEntries(b) ==
    IF b = <<>> THEN <<>>
    ELSE LET n == StdFind(b, 1, NUL)
         IN <<SubSeq(b, 1, n - 1)>> \o EnvEntries(SubSeq(b, n + 1, Len(b)))

\* needle occurs in s
Occurs(needle, s) ==
    \E i \in 1..Len(s) :
        i + Len(needle) - 1 <= Len(s) /\ SubSeq(s, i, i + Len(needle) - 1) = needle

\* the sentinel line followed by "a=a\r\nb=b\r\n"
SentinelAndTwoVars == magic_string \o <<CR, LF>> \o TwoVars

\* the captured output is the sentinel line, two variables, and further content
StartsWithTwoVars ==
    /\ Len(captured) >= Len(SentinelAndTwoVars)
    /\ SubSeq(captured, 1, Len(SentinelAndTwoVars)) = SentinelAndTwoVars

FurtherContent == SubSeq(captured, Len(SentinelAndTwoVars) + 1, Len(captured))

\* the first line of s: what precedes its first '\r' or '\n'
FirstLine(s) == SubSeq(s, 1, Min(StdFind(s, 1, CR), StdFind(s, 1, LF)) - 1)

HasEq(s) == \E i \in 1..Len(s) : s[i] = EQ

\* the two entries "a=a" and "b=b"
TwoEntries == <<<<Letter, EQ, Letter>>, <<LetterB, EQ, LetterB>>>>

\* C15 as stated: for a captured output made of the sentinel line, two NAME=VALUE
\* lines and further content whose first line has no '=', the Environment returned
\* by cmd_execute_modify_env holds exactly the two entries, whatever follows.
C15_StopsAtFirstMalformedLine ==
    (efn = "modify_env" /\ epc = "returned" /\ StartsWithTwoVars
       /\ ~HasEq(FirstLine(FurtherContent))) =>
        EnvEntries(out_env) = TwoEntries

\* what the code does keep: exactly the two entries when the further content has no
\* '=' with a '\r' somewhere after it
C15_HoldsWithoutLaterEq ==
    (efn = "modify_env" /\ epc = "returned" /\ StartsWithTwoVars
       /\ ~\E i, j \in 1..Len(FurtherContent) :
              i < j /\ FurtherContent[i] = EQ /\ FurtherContent[j] = CR) =>
        EnvEntries(out_env) = TwoEntries

\* C15 witness: after the two variables comes the line "a" and then the line "=";
\* the Environment returned has a third entry, named "a\r\n".
C15_Witness ==
    /\ efn = "modify_env" /\ epc = "returned" /\ StartsWithTwoVars
    /\ FurtherContent = <<Letter, CR, LF, EQ, CR>>
    /\ EnvEntries(out_env) = TwoEntries \o <<<<Letter, CR, LF, EQ>>>>

\* the sentinel immediately followed by "\r\n" occurs in the captured output
SentinelLineOccurs == Occurs(magic_string \o <<CR, LF>>, captured)

\* C18: cmd_execute_modify_env gets as far as parsing and returning only when the
\* setup command's exit code is 0 and the sentinel followed by "\r\n" occurs in the
\* captured output; otherwise the process is ended at the check that fails, and it
\* is ended for no other reason.
C18_TerminatesUnlessBoth ==
    (efn = "modify_env") =>
        /\ (epc \in {"parse", "returned"}) => (exit_code = 0 /\ SentinelLineOccurs)
        /\ (epc = "exit_fail") => (exit_code # 0 \/ ~SentinelLineOccurs)
        /\ (exit_code # 0 /\ epc # "start") => epc = "exit_fail"
        /\ (~SentinelLineOccurs /\ epc \notin {"start", "search"}) => epc = "exit_fail"

\* C18 witness: the setup command succeeded and printed the sentinel, but followed
\* by a bare '\n': the process was ended.
C18_Witness ==
    /\ efn = "modify_env" /\ epc = "exit_fail"
    /\ exit_code = 0
    /\ Occurs(magic_string \o <<LF>>, captured)
    /\ ~SentinelLineOccurs

\* a second C18 case: both conditions met, an Environment with an entry is returned
C18_WitnessReturned ==
    /\ efn = "modify_env" /\ epc = "returned"
    /\ exit_code = 0 /\ SentinelLineOccurs
    /\ Len(EnvEntries(out_env)) >= 1

(***************************************************************************)
(* Properties of get_environment.                                          *)
(***************************************************************************)
Range(s) == {s[i] : i \in 1..Len(s)}

\* names without regard to letter case
Keys(S) == {NameKey(n) : n \in S}

\* the variable names of the block's entries
BlockNames == {block[i].name : i \in 1..Len(block)}

\* the allow-listed base names whose value in the current process is not empty
BaseNonEmpty ==
    {n \in Range(FixedList \o keep_vars) : GetEnvironmentVariable(penv, n) # ""}

\* the indices of the block's entries for the variable `name`
EntriesFor(name) == {i \in 1..Len(block) : NameKey(block[i].name) = NameKey(name)}

\* C16 as stated: the names in the block get_environment returns are exactly the
\* allow-listed names with a non-empty value, the keys of extra_env and the search
\* path, and no other.
C16_NamesAsStated ==
    (efn = "get_environment" /\ epc = "returned") =>
        Keys(BlockNames) = Keys(BaseNonEmpty \cup DOMAIN extra_env \cup {"Path"})

\* C16 amended: on the _WIN32 build the names in the block get_environment returns
\* are exactly the allow-listed names with a non-empty value, the keys of
\* extra_env, the search path Path and the fixed variable VSLANG, and no other; the
\* key "PATH" of extra_env is not an entry of its own; on the other build the block
\* is empty.
C16_NamesWithVslang ==
    (efn = "get_environment" /\ epc = "returned") =>
        IF platform = "win32"
        THEN /\ Keys(BlockNames) =
                  Keys(BaseNonEmpty \cup DOMAIN extra_env \cup {"Path", "VSLANG"})
             /\ BlockNames =
                  BaseNonEmpty \cup (DOMAIN extra_env \ {"PATH"}) \cup {"Path", "VSLANG"}
        ELSE block = <<>>

\* C16 witness: a kept variable that is set, an allow-listed one that is not, an
\* extra variable and a search path override: the block names KEEPME, NEW, Path
\* and VSLANG but neither TEMP nor SECRET.
C16_Witness ==
    /\ efn = "get_environment" /\ epc = "returned" /\ platform = "win32"
    /\ keep_vars = <<"KEEPME">> /\ penv.KEEPME # "" /\ penv.TEMP = ""
    /\ DOMAIN extra_env = {"NEW", "PATH"}
    /\ BlockNames = {"SystemRoot", "KEEPME", "Path", "VSLANG", "NEW"}

\* C17 as stated: in the block get_environment returns no variable name occurs
\* twice, and a key of extra_env has a single entry that carries the caller's value
\* (for the search path in any letter case: the synthesized value with the caller's
\* value appended).
C17_NamesUnique ==
    (efn = "get_environment" /\ epc = "returned" /\ platform = "win32") =>
        /\ \A i, j \in 1..Len(block) :
              NameKey(block[i].name) = NameKey(block[j].name) => i = j
        /\ \A k \in DOMAIN extra_env :
              /\ Cardinality(EntriesFor(k)) = 1
              /\ \A i \in EntriesFor(k) :
                    IF NameKey(k) = "PATH"
                    THEN block[i].value[Len(block[i].value)] = extra_env[k]
                    ELSE block[i].value = <<extra_env[k]>>

\* no key of extra_env other than "PATH" itself names an allow-listed variable that
\* is set, the search path or VSLANG, and VCPKG_KEEP_ENV_VARS repeats no name of
\* the fixed list and does not list the search path
NoNameClash ==
    /\ \A k \in DOMAIN extra_env :
          k = "PATH" \/ NameKey(k) \notin Keys(BaseNonEmpty) \cup {"PATH", "VSLANG"}
    /\ \A n \in Range(keep_vars) : n \notin Range(FixedList) /\ NameKey(n) # "PATH"

\* what the code does keep: the claim holds when no names clash
C17_HoldsWithoutClash ==
    (efn = "get_environment" /\ epc = "returned" /\ platform = "win32" /\ NoNameClash) =>
        /\ \A i, j \in 1..Len(block) :
              NameKey(block[i].name) = NameKey(block[j].name) => i = j
        /\ \A k \in DOMAIN extra_env :
              /\ Cardinality(EntriesFor(k)) = 1
              /\ \A i \in EntriesFor(k) :
                    IF NameKey(k) = "PATH"
                    THEN block[i].value[Len(block[i].value)] = extra_env[k]
                    ELSE block[i].value = <<extra_env[k]>>

\* C17 witness: TEMP is set in the process and is a key of extra_env: the block has
\* two entries named TEMP, the process's value first.
C17_Witness ==
    /\ efn = "get_environment" /\ epc = "returned" /\ platform = "win32"
    /\ DOMAIN extra_env = {"TEMP"}
    /\ \E i, j \in 1..Len(block) :
          /\ i < j
          /\ block[i] = Entry("TEMP", <<"t">>)
          /\ block[j] = Entry("TEMP", <<"x">>)

(***************************************************************************)
(* Properties of get_clean_environment.                                    *)
(***************************************************************************)
\* the threads whose call of get_clean_environment has returned
CleanReturned == {t \in Threads : ret[t].obj # 0}

\* what get_environment({}) builds from the environment env
CleanBlockOf(env) ==
    IF platform = "win32" THEN WindowsBlock(env, keep_vars, <<>>, <<>>, "") ELSE <<>>

\* C19: over all calls of get_clean_environment from all threads the initialiser
\* get_environment({}) runs at most once, every call returns the one object with
\* the contents built from the environment at that time, and once built those
\* contents never change, whatever happens to the environment of the process.
C19_CleanEnvBuiltOnce ==
    /\ [](efn = "get_clean_environment" =>
            /\ constructions <= 1
            /\ \A t \in CleanReturned :
                  /\ ret[t].obj = 1
                  /\ ret[t].contents = clean_env
                  /\ ret[t].contents = CleanBlockOf(built_from)
            /\ \A t, u \in CleanReturned : ret[t] = ret[u])
    /\ [][(efn = "get_clean_environment" /\ clean_state = "done") =>
             (clean_env' = clean_env /\ clean_state' = "done"
                /\ constructions' = constructions)]_vars

\* C19 witness: two threads have got the clean environment, built while TEMP was
\* set; TEMP has been cleared since and the contents still hold it.
C19_Witness ==
    /\ efn = "get_clean_environment" /\ platform = "win32"
    /\ CleanReturned = {1, 2}
    /\ constructions = 1
    /\ built_from.TEMP = "t" /\ penv.TEMP = ""
    /\ \E i \in 1..Len(clean_env) : clean_env[i] = Entry("TEMP", <<"t">>)
    /\ ret[1].contents = clean_env /\ ret[2].contents = clean_env

(***************************************************************************)
(* The drain after a deferred Ctrl-C.                                      *)
(***************************************************************************)
\* the position in the history of the Ctrl-C that was recorded while children were
\* outstanding (there is at most one), 0 if there is none
DeferAt ==
    IF \E i \in 1..Len(hist) : hist[i].op = "ctrl" /\ hist[i].res = "defer"
    THEN CHOOSE i \in 1..Len(hist) : hist[i].op = "ctrl" /\ hist[i].res = "defer"
    ELSE 0

\* the children outstanding just before position p of the history: pre-spawns that
\* succeeded less post-completions
OutstandingAt(p) ==
    Cardinality({i \in 1..(p - 1) : hist[i].op = "to" /\ hist[i].res = "ok"})
        - Cardinality({i \in 1..(p - 1) : hist[i].op = "from"})

\* the post-completions after position p of the history, in order
FromsAfter(p) == SelectSeq(SubSeq(hist, p + 1, Len(hist)), IsFrom)

\* C21: after a Ctrl-C recorded while k >= 1 children are outstanding there are at
\* most k post-completions; in whatever order the threads perform them the first
\* k-1 enter the sleep-forever loop and stay there without shutting down, and the
\* k-th, the one that reads INT_MIN+1, is the one that goes on to
\* final_cleanup_and_exit(1).
C21_LastOneTerminates ==
    /\ [](DeferAt # 0 =>
            LET k == OutstandingAt(DeferAt)
                fs == FromsAfter(DeferAt)
            IN /\ k >= 1
               /\ Len(fs) <= k
               /\ \A i \in 1..Len(fs) : fs[i].res = IF i = k THEN "exit" ELSE "wait")
    /\ [](\A t \in Threads :
            /\ InHist(Event("from", t, "wait")) => pc[t] = "wait_from_spawn"
            /\ InHist(Event("from", t, "exit")) =>
                  /\ pc[t] \in {"exit_call", "in_exit"}
                  /\ process \in {"running", "exit_1"}
                  /\ pc[t] = "in_exit" => exit_calls = 1)
    /\ [][\A t \in Threads :
            (pc[t] = "from_spawn" /\ pc'[t] # pc[t] /\ counter < 0) =>
               /\ counter = INT_MIN + 1 => pc'[t] = "exit_call"
               /\ counter # INT_MIN + 1 => pc'[t] = "wait_from_spawn"
               /\ counter' = counter - 1]_vars

\* C21 witness: a Ctrl-C found two children outstanding; of the two post-completions
\* the first sleeps and the second has ended the process with status 1.
C21_Witness ==
    /\ DeferAt # 0
    /\ OutstandingAt(DeferAt) = 2
    /\ Len(FromsAfter(DeferAt)) = 2
    /\ \E t \in Threads : pc[t] = "wait_from_spawn"
    /\ process = "exit_1"

\* a Ctrl-C found one child outstanding: its post-completion shuts down at once
C21_WitnessSingle ==
    /\ DeferAt # 0
    /\ OutstandingAt(DeferAt) = 1
    /\ Len(FromsAfter(DeferAt)) = 1
    /\ process = "exit_1"

(***************************************************************************)
(* What the counter encodes.                                               *)
(***************************************************************************)
\* the compare_exchange of some handler context has succeeded: that context left the
\* loop with the non-negative value it expected
InterruptInstalled ==
    \E h \in Handlers : hpc[h] \in {"returned", "exit_call", "in_exit"} /\ old_value[h] >= 0

\* B of the encoding: 0 before the Ctrl-C is recorded, INT_MIN after
Base == IF InterruptInstalled THEN INT_MIN ELSE 0

\* C22: the counter is always B + K, with K the number of threads between their
\* pre-spawn and their post-completion and B = 0 before a Ctrl-C is recorded and
\* INT_MIN after; so it lies in [0, N] or in [INT_MIN, INT_MIN + N], a
\* post-completion never finds 0 or INT_MIN, and every update is the exact sum
\* (+1, -1 or +INT_MIN) without wrapping.
C22_CounterEncodes ==
    /\ [](counter = Base + Cardinality(Outstanding))
    /\ [](counter \in 0..NThreads \/ counter \in INT_MIN..(INT_MIN + NThreads))
    /\ [](\A t \in Threads : pc[t] = "from_spawn" => counter \notin {0, INT_MIN})
    /\ [][counter' # counter =>
            /\ counter' - counter \in {1, -1, INT_MIN}
            /\ counter' \in INT_MIN..INT_MAX]_vars

\* C22 witness: a Ctrl-C has been recorded on top of two outstanding children.
C22_Witness ==
    /\ InterruptInstalled
    /\ Cardinality(Outstanding) = 2
    /\ counter = INT_MIN + 2
    /\ \E t \in Threads : pc[t] = "from_spawn"

\* C24: the Ctrl-C is sticky: a step taken while the counter is negative leaves it
\* negative and does not increase it, whichever of pre-spawn, post-completion and
\* handler takes the step.
C24_InterruptSticky ==
    [][counter < 0 => (counter' < 0 /\ counter' <= counter)]_vars

\* C24 witness: after the Ctrl-C was recorded a pre-spawn, a repeated Ctrl-C and the
\* post-completion have all acted, and the counter is still negative.
C24_Witness ==
    /\ counter = INT_MIN
    /\ \E t \in Threads : InHist(Event("to", t, "wait"))
    /\ \E h \in Handlers : InHist(Event("ctrl", h, "repeat"))
    /\ \E t \in Threads : InHist(Event("from", t, "exit"))

(***************************************************************************)
(* Returning to the caller after a Ctrl-C.                                 *)
(***************************************************************************)
\* C23 as stated: once the counter is negative no blocking execute call returns to
\* its caller.
C23_NoReturnAfterInterrupt ==
    [][\A t \in Threads :
          (pc[t] = "returning" /\ pc'[t] = "idle") => counter >= 0]_vars

\* C23 amended: once the counter is negative a post-completion shuts down or sleeps
\* and a pre-spawn sleeps, the sleepers and the thread shutting down never come
\* back, and no call starts to return; the calls that return are those whose
\* post-completion read a positive counter, before the Ctrl-C was recorded.
C23_OnlyEarlierCallsReturn ==
    [][\A t \in Threads :
          /\ (counter < 0 /\ pc'[t] # pc[t]) =>
                /\ pc[t] = "from_spawn" => pc'[t] \in {"exit_call", "wait_from_spawn"}
                /\ pc[t] = "to_spawn" => pc'[t] = "wait_to_spawn"
                /\ pc'[t] # "returning"
          /\ pc[t] \in {"wait_to_spawn", "wait_from_spawn"} => pc'[t] = pc[t]
          /\ pc[t] \in {"exit_call", "in_exit"} => pc'[t] \in {"exit_call", "in_exit"}
          /\ (pc'[t] = "returning" /\ pc[t] # "returning") =>
                (pc[t] = "from_spawn" /\ counter > 0)
          /\ pc'[t] = "idle" => pc[t] \in {"idle", "returning"}]_vars

\* C23 witness: a call whose post-completion came before the Ctrl-C is about to hand
\* its exit code to its caller while the counter is negative and another child is
\* still outstanding.
C23_Witness ==
    /\ counter < 0
    /\ \E t \in Threads : pc[t] = "returning" /\ InHist(Event("from", t, "ok"))
    /\ Outstanding # {}
    /\ process = "running"

(***************************************************************************)
(* cmd_execute_and_stream_data on the _WIN32 path with the pipes and the   *)
(* processes that hold their ends: one call of                             *)
(* cmd_execute_and_capture_output followed handle by handle, its child,    *)
(* and a process another thread of the program creates meanwhile.  Here    *)
(* `call` has, besides the fields above:                                   *)
(*   inheritable: the handles of the call that are inheritable             *)
(*   child_proc: the child: "none" yet, "running", "exited"                *)
(*   child_has: the handles the child inherited                            *)
(*   written: how many bytes of child_out the child has written            *)
(*   reads_stdin: the child reads its standard input to the end            *)
(*   stdin_eof: the child has seen the end of its standard input           *)
(*   other_proc: a process created by another thread: "none", "running",   *)
(*               "exited"                                                  *)
(*   other_has: the handles of this call that process inherited            *)
(***************************************************************************)
inheritable == call.inheritable
child_proc == call.child_proc
child_has == call.child_has
written == call.written
reads_stdin == call.reads_stdin
stdin_eof == call.stdin_eof
other_proc == call.other_proc
other_has == call.other_has

\* the outputs of the child, by amount
Amounts == {[i \in 1..n |-> Letter] : n \in 0..MaxOut}

\* the processes holding handle h open: the program itself, its child, the other one
Holders(h) ==
    (IF handles[h] = "open" THEN {"self"} ELSE {})
      \cup (IF child_proc = "running" /\ h \in child_has THEN {"child"} ELSE {})
      \cup (IF other_proc = "running" /\ h \in other_has THEN {"other"} ELSE {})

\* CreateProcessW with bInheritHandles = TRUE (line 380): the new process gets every
\* open inheritable handle of the program
Inherited == {h \in HandleNames : handles[h] = "open" /\ h \in inheritable}

\* the bytes in the output pipe
InPipe == written - rd

PipeInit ==
    /\ CtrlInit
    /\ EnvOff
    /\ platform = "win32"
    /\ api = "capture_output"
    /\ child_out \in Amounts
    /\ rd = 0
    /\ spc = "start"
    /\ chunks = <<>>
    /\ buf = <<>>
    /\ lines = <<>>
    /\ output = <<>>
    /\ rc_kind = "none"
    /\ call \in {[exit_status |-> 0, rc |-> 0, launch |-> "none", read_error |-> FALSE,
                   handles |-> [h \in HandleNames |-> "none"], steps |-> <<>>,
                   inheritable |-> {}, child_proc |-> "none", child_has |-> {},
                   written |-> 0, reads_stdin |-> r, stdin_eof |-> FALSE,
                   other_proc |-> "none", other_has |-> {}] : r \in BOOLEAN}

\* a step of windows_create_process_redirect goes on to `to` with the call record
\* `ok`, or the system call fails and the program is ended (Checks::exit_fail, lines
\* 445-451)
SetupStep(to, ok) ==
    /\ \/ call' = ok /\ spc' = to
       \/ UNCHANGED call /\ spc' = "exit_fail"
    /\ UNCHANGED <<platform, api, child_out, rd, chunks, buf, lines, output, rc_kind>>
    /\ UNCHANGED <<ctrlVars, envVars>>

\* line 445: CreatePipe(&ret.child_stdout, &startup_info.hStdOutput, &saAttr, 0) with
\* saAttr.bInheritHandle = TRUE (line 440): both ends are inheritable
CreateStdoutPipe ==
    /\ spc = "create"
    /\ SetupStep("out_created",
              [call EXCEPT !.handles = OpenHandles(@, {"child_stdout", "hStdOutput"}),
                           !.inheritable = @ \cup {"child_stdout", "hStdOutput"}])

\* line 447: SetHandleInformation(ret.child_stdout, HANDLE_FLAG_INHERIT, 0)
ProtectStdoutRead ==
    /\ spc = "out_created"
    /\ SetupStep("out_set",
              [call EXCEPT !.inheritable = @ \ {"child_stdout"}])

\* line 449: CreatePipe(&startup_info.hStdInput, &ret.child_stdin, &saAttr, 0)
CreateStdinPipe ==
    /\ spc = "out_set"
    /\ SetupStep("in_created",
              [call EXCEPT !.handles = OpenHandles(@, {"hStdInput", "child_stdin"}),
                           !.inheritable = @ \cup {"hStdInput", "child_stdin"}])

\* line 451: SetHandleInformation(ret.child_stdin, HANDLE_FLAG_INHERIT, 0)
ProtectStdinWrite ==
    /\ spc = "in_created"
    /\ SetupStep("in_set",
              [call EXCEPT !.inheritable = @ \ {"child_stdin"}])

\* line 454: windows_create_process with the startup_info: CreateProcessW (line 376)
\* starts the child with the inheritable handles; a failure ends the program
\* (line 387)
CreateProcessRedirect ==
    /\ spc = "in_set"
    /\ SetupStep("created",
              [call EXCEPT !.launch = "ok",
                           !.child_proc = "running",
                           !.child_has = Inherited,
                           !.handles = OpenHandles(@, {"hProcess", "hThread"}),
                           !.steps = Append(@, "create")])

\* lines 456-457: CloseHandle(startup_info.hStdInput); CloseHandle(startup_info.hStdOutput)
CloseChildEnds ==
    /\ spc = "created"
    /\ call' = [call EXCEPT !.handles = CloseHandle(CloseHandle(@, "hStdInput"), "hStdOutput")]
    /\ spc' = "opened"
    /\ UNCHANGED <<platform, api, child_out, rd, chunks, buf, lines, output, rc_kind>>
    /\ UNCHANGED <<ctrlVars, envVars>>

\* lines 416-419: ReadFile returns bytes that are in the pipe, at most sizeof(buf);
\* with the pipe empty and a write end open somewhere it blocks
PipeReadFileData ==
    /\ spc = "read"
    /\ InPipe > 0
    /\ \E bytes_read \in 1..Min(BufSize, InPipe) :
          /\ DataCb(SubSeq(child_out, rd + 1, rd + bytes_read))
          /\ rd' = rd + bytes_read
    /\ UNCHANGED <<platform, api, child_out, spc, rc_kind, call>>
    /\ UNCHANGED <<ctrlVars, envVars>>

\* lines 416-421: ReadFile fails: the pipe is empty and no process holds a write end
\* (the pipe is broken), or a read error; the loop ends; CloseHandle(child_stdout)
PipeReadFileFails(error) ==
    /\ spc = "read"
    /\ ~error => (InPipe = 0 /\ Holders("hStdOutput") = {})
    /\ call' = [call EXCEPT !.read_error = error,
                              !.handles = CloseHandle(@, "child_stdout"),
                              !.steps = Append(@, "read_end")]
    /\ spc' = "wait"
    /\ UNCHANGED <<platform, api, child_out, rd, chunks, buf, lines, output, rc_kind>>
    /\ UNCHANGED <<ctrlVars, envVars>>

\* lines 336-349: wait_and_close_handles: CloseHandle(hThread); WaitForSingleObject
\* returns once the child has exited; GetExitCodeProcess; CloseHandle(hProcess);
\* a failed wait ends the program (line 341)
PipeWaitAndCloseHandles(failed) ==
    /\ spc = "wait"
    /\ \/ /\ ~failed
          /\ child_proc = "exited"
          /\ call' = [call EXCEPT
                        !.handles = CloseHandle(CloseHandle(@, "hThread"), "hProcess"),
                        !.rc = GetExitCodeProcess(exit_status),
                        !.steps = Append(@, "wait_release")]
          /\ rc_kind' = "exit_code"
          /\ spc' = "post"
       \/ /\ failed
          /\ call' = [call EXCEPT !.handles = CloseHandle(@, "hThread")]
          /\ spc' = "exit_fail"
          /\ UNCHANGED rc_kind
    /\ UNCHANGED <<platform, api, child_out, rd, chunks, buf, lines, output>>
    /\ UNCHANGED <<ctrlVars, envVars>>

\* a step of the child or of the other process: only `call` changes
ProcessStep(new) ==
    /\ call' = new
    /\ UNCHANGED <<platform, api, child_out, rd, spc, chunks, buf, lines, output, rc_kind>>
    /\ UNCHANGED <<ctrlVars, envVars>>

\* the child writes a byte to its standard output or error (hStdOutput = hStdError,
\* line 452): it needs room in the pipe (CreatePipe with nSize 0, line 445); with no
\* read end left open the write fails and the child goes on
ChildWrites ==
    /\ child_proc = "running"
    /\ written < Len(child_out)
    /\ Holders("child_stdout") # {} => InPipe < PipeCap
    /\ ProcessStep([call EXCEPT !.written = @ + 1])

\* the child reads its standard input to the end: the end comes once no process
\* holds the write end child_stdin
ChildReadsStdin ==
    /\ child_proc = "running"
    /\ reads_stdin /\ ~stdin_eof
    /\ Holders("child_stdin") = {}
    /\ ProcessStep([call EXCEPT !.stdin_eof = TRUE])

\* the child exits, having written its output (and read its input)
ChildExits ==
    /\ child_proc = "running"
    /\ written = Len(child_out)
    /\ reads_stdin => stdin_eof
    /\ ProcessStep([call EXCEPT !.child_proc = "exited"])

\* another thread of the program creates a process while this call is under way:
\* windows_create_process (lines 376-385) from cmd_execute, cmd_execute_no_wait or
\* another cmd_execute_and_stream_data, bInheritHandles = TRUE
OtherCreateProcess ==
    /\ other_proc = "none"
    /\ spc \notin {"start", "done", "exit_fail"}
    /\ ProcessStep([call EXCEPT !.other_proc = "running", !.other_has = Inherited])

\* that process exits, if it ever does
OtherExits ==
    /\ other_proc = "running"
    /\ ProcessStep([call EXCEPT !.other_proc = "exited"])

PipeNext ==
    \/ PreSpawn
    \/ CreateStdoutPipe
    \/ ProtectStdoutRead
    \/ CreateStdinPipe
    \/ ProtectStdinWrite
    \/ CreateProcessRedirect
    \/ CloseChildEnds
    \/ CloseChildStdin
    \/ PipeReadFileData
    \/ \E error \in BOOLEAN : PipeReadFileFails(error)
    \/ \E failed \in BOOLEAN : PipeWaitAndCloseHandles(failed)
    \/ PostCompletion
    \/ CallerReturns
    \/ ChildWrites
    \/ ChildReadsStdin
    \/ ChildExits
    \/ OtherCreateProcess
    \/ OtherExits

PipeSpec == PipeInit /\ [][PipeNext]_vars

\* the steps of the calling thread and of the child: as long as one of them can be
\* taken, one is eventually taken; a read error and a failed wait are never due, and
\* the other process may run forever
PipeProgress ==
    \/ PreSpawn
    \/ CreateStdoutPipe
    \/ ProtectStdoutRead
    \/ CreateStdinPipe
    \/ ProtectStdinWrite
    \/ CreateProcessRedirect
    \/ CloseChildEnds
    \/ CloseChildStdin
    \/ PipeReadFileData
    \/ PipeReadFileFails(FALSE)
    \/ PipeWaitAndCloseHandles(FALSE)
    \/ PostCompletion
    \/ CallerReturns
    \/ ChildWrites
    \/ ChildReadsStdin
    \/ ChildExits

PipeLiveSpec == PipeSpec /\ WF_vars(PipeProgress)

(***************************************************************************)
(* Properties of the pipes.                                                *)
(***************************************************************************)
\* cmd_execute_and_stream_data has returned, or the program was ended by a failed check
CallOver == spc \in {"data_returned", "done", "exit_fail"}

\* the process another thread created holds this call's handle h
OtherHolds(h) == "other" \in Holders(h)

\* C25 as stated: once the child has exited, cmd_execute_and_stream_data eventually
\* returns, whatever amount of output the child wrote.
C25_ReturnsWhenChildExits ==
    (child_proc = "exited") ~> CallOver

\* what holds instead: once the child has exited the call eventually returns, unless
\* a process created by another thread inherited the write end of the output pipe
\* and is still running.
C25_ReturnsUnlessInherited ==
    (child_proc = "exited") ~> (CallOver \/ OtherHolds("hStdOutput"))

\* with no handle of the call in another process, the call always comes to its end,
\* whether or not the child reads its input and however much it writes
C25_EndsUnlessInherited ==
    <>(CallOver \/ OtherHolds("hStdOutput") \/ OtherHolds("child_stdin"))

\* C25 witness: a child that waits for the end of its input and writes more than the
\* pipe holds has exited, and the call has returned all of the output.
C25_Witness ==
    /\ spc = "done"
    /\ reads_stdin /\ stdin_eof
    /\ Len(child_out) > PipeCap
    /\ output = child_out
    /\ child_proc = "exited"
    /\ other_proc = "none"

\* the call is blocked in ReadFile on an empty pipe after its child has exited,
\* because the other process holds the write end
C25_Blocked ==
    /\ spc = "read"
    /\ child_proc = "exited"
    /\ InPipe = 0
    /\ Holders("hStdOutput") = {"other"}

====
